---------------------------- MODULE Spec2Model ----------------------------
(***************************************************************************)
(* Model of RecipeRecommender (intelligent-recipe-recommender-csp.py):     *)
(* set_constraints, check_constraints, calculate_match and recommend over  *)
(* the embedded RECIPES catalog.                                           *)
(*                                                                         *)
(* Strings are sequences of one-character strings, so that lower(),        *)
(* strip() and the substring test `a in b` are computed, not assumed.      *)
(* match_pct is kept in tenths of a percent (1000 stands for 100.0).       *)
(* An optional argument is <<>> for None and <<v>> for the value v.        *)
(***************************************************************************)
EXTENDS Integers, Sequences, FiniteSets, TLC

(* ------------------------------ bounds --------------------------------- *)
\* longest user ingredient list passed to set_constraints
MaxIngredients == 2
\* longest dietary list passed to set_constraints
MaxDietary == 2
\* largest top_n passed to recommend (one more than the catalog size)
MaxTopN == 11
\* size of the largest recipe handed to calculate_match
MaxLargeLen == 2002

(* ------------------------------ strings -------------------------------- *)
\* the letters str.lower() changes (ASCII)
Uppercase ==
  {"A", "B", "C", "D", "E", "F", "G", "H", "I", "J", "K", "L", "M",
   "N", "O", "P", "Q", "R", "S", "T", "U", "V", "W", "X", "Y", "Z"}

\* str.lower() on one character
LowerChar(c) ==
  IF c \notin Uppercase THEN c
  ELSE CASE c = "A" -> "a" [] c = "B" -> "b" [] c = "C" -> "c" [] c = "D" -> "d"
         [] c = "E" -> "e" [] c = "F" -> "f" [] c = "G" -> "g" [] c = "H" -> "h"
         [] c = "I" -> "i" [] c = "J" -> "j" [] c = "K" -> "k" [] c = "L" -> "l"
         [] c = "M" -> "m" [] c = "N" -> "n" [] c = "O" -> "o" [] c = "P" -> "p"
         [] c = "Q" -> "q" [] c = "R" -> "r" [] c = "S" -> "s" [] c = "T" -> "t"
         [] c = "U" -> "u" [] c = "V" -> "v" [] c = "W" -> "w" [] c = "X" -> "x"
         [] c = "Y" -> "y" [] c = "Z" -> "z"

\* str.lower()
Lower(s) == [i \in 1..Len(s) |-> LowerChar(s[i])]

\* the characters str.strip() removes
Whitespace == {" ", "\t", "\n"}

\* str.strip(): drop leading and trailing whitespace
Strip(s) ==
  LET keep == {i \in 1..Len(s) : s[i] \notin Whitespace}
  IN  IF keep = {} THEN <<>>
      ELSE LET lo == CHOOSE i \in keep : \A j \in keep : i <= j
               hi == CHOOSE i \in keep : \A j \in keep : j <= i
           IN  SubSeq(s, lo, hi)

\* Python's `a in b` on two strings: a occurs in b as a substring
StrIn(a, b) ==
  \E i \in 0..(Len(b) - Len(a)) : \A j \in 1..Len(a) : b[i + j] = a[j]

\* Python's `x in list`
ListIn(x, list) == \E i \in 1..Len(list) : list[i] = x

\* None and Some(v) for optional arguments
None == <<>>
Some(v) == <<v>>

(* ------------------------------ catalog -------------------------------- *)
RECIPES ==
  <<
  [id |-> 1, name |-> "Mediterranean Chickpea Salad",
     ingredients |-> <<
       <<"c","h","i","c","k","p","e","a","s">>,
       <<"c","u","c","u","m","b","e","r">>,
       <<"t","o","m","a","t","o">>,
       <<"o","l","i","v","e"," ","o","i","l">>,
       <<"l","e","m","o","n">>,
       <<"f","e","t","a"," ","c","h","e","e","s","e">>,
       <<"r","e","d"," ","o","n","i","o","n">>,
       <<"p","a","r","s","l","e","y">>>>,
     dietary |-> <<<<"v","e","g","e","t","a","r","i","a","n">>, <<"g","l","u","t","e","n","-","f","r","e","e">>>>,
     time |-> 15, difficulty |-> "Easy", cuisine |-> "Mediterranean", calories |-> 320, protein |-> 12],
  [id |-> 2, name |-> "Quinoa Buddha Bowl",
     ingredients |-> <<
       <<"q","u","i","n","o","a">>,
       <<"c","h","i","c","k","p","e","a","s">>,
       <<"a","v","o","c","a","d","o">>,
       <<"s","p","i","n","a","c","h">>,
       <<"c","a","r","r","o","t">>,
       <<"t","a","h","i","n","i">>,
       <<"l","e","m","o","n">>,
       <<"s","e","s","a","m","e"," ","s","e","e","d","s">>>>,
     dietary |-> <<<<"v","e","g","a","n">>, <<"g","l","u","t","e","n","-","f","r","e","e">>>>,
     time |-> 30, difficulty |-> "Easy", cuisine |-> "Modern Fusion", calories |-> 450, protein |-> 15],
  [id |-> 3, name |-> "Classic Chicken Stir Fry",
     ingredients |-> <<
       <<"c","h","i","c","k","e","n">>,
       <<"s","o","y"," ","s","a","u","c","e">>,
       <<"g","i","n","g","e","r">>,
       <<"g","a","r","l","i","c">>,
       <<"b","r","o","c","c","o","l","i">>,
       <<"c","a","r","r","o","t">>,
       <<"b","e","l","l"," ","p","e","p","p","e","r">>,
       <<"r","i","c","e">>>>,
     dietary |-> <<<<"n","o","n","-","v","e","g","e","t","a","r","i","a","n">>, <<"d","a","i","r","y","-","f","r","e","e">>>>,
     time |-> 25, difficulty |-> "Medium", cuisine |-> "Asian", calories |-> 480, protein |-> 35],
  [id |-> 4, name |-> "Vegetable Pasta Primavera",
     ingredients |-> <<
       <<"p","a","s","t","a">>,
       <<"t","o","m","a","t","o">>,
       <<"o","n","i","o","n">>,
       <<"g","a","r","l","i","c">>,
       <<"o","l","i","v","e"," ","o","i","l">>,
       <<"b","a","s","i","l">>,
       <<"b","e","l","l"," ","p","e","p","p","e","r">>,
       <<"z","u","c","c","h","i","n","i">>,
       <<"p","a","r","m","e","s","a","n">>>>,
     dietary |-> <<<<"v","e","g","e","t","a","r","i","a","n">>>>,
     time |-> 30, difficulty |-> "Easy", cuisine |-> "Italian", calories |-> 380, protein |-> 11],
  [id |-> 5, name |-> "Spicy Lentil Curry",
     ingredients |-> <<
       <<"l","e","n","t","i","l","s">>,
       <<"o","n","i","o","n">>,
       <<"t","o","m","a","t","o">>,
       <<"c","u","m","i","n">>,
       <<"g","a","r","l","i","c">>,
       <<"c","o","c","o","n","u","t"," ","m","i","l","k">>,
       <<"t","u","r","m","e","r","i","c">>,
       <<"s","p","i","n","a","c","h">>,
       <<"g","i","n","g","e","r">>>>,
     dietary |-> <<<<"v","e","g","a","n">>, <<"g","l","u","t","e","n","-","f","r","e","e">>>>,
     time |-> 40, difficulty |-> "Medium", cuisine |-> "Indian", calories |-> 340, protein |-> 18],
  [id |-> 6, name |-> "Grilled Salmon with Vegetables",
     ingredients |-> <<
       <<"s","a","l","m","o","n">>,
       <<"l","e","m","o","n">>,
       <<"o","l","i","v","e"," ","o","i","l">>,
       <<"a","s","p","a","r","a","g","u","s">>,
       <<"g","a","r","l","i","c">>,
       <<"d","i","l","l">>,
       <<"t","o","m","a","t","o">>,
       <<"b","l","a","c","k"," ","p","e","p","p","e","r">>>>,
     dietary |-> <<<<"n","o","n","-","v","e","g","e","t","a","r","i","a","n">>, <<"g","l","u","t","e","n","-","f","r","e","e">>>>,
     time |-> 20, difficulty |-> "Medium", cuisine |-> "Contemporary", calories |-> 420, protein |-> 40],
  [id |-> 7, name |-> "Black Bean Tacos",
     ingredients |-> <<
       <<"b","l","a","c","k"," ","b","e","a","n","s">>,
       <<"t","o","r","t","i","l","l","a">>,
       <<"a","v","o","c","a","d","o">>,
       <<"l","i","m","e">>,
       <<"c","i","l","a","n","t","r","o">>,
       <<"o","n","i","o","n">>,
       <<"t","o","m","a","t","o">>,
       <<"c","u","m","i","n">>,
       <<"l","e","t","t","u","c","e">>>>,
     dietary |-> <<<<"v","e","g","a","n">>, <<"v","e","g","e","t","a","r","i","a","n">>>>,
     time |-> 20, difficulty |-> "Easy", cuisine |-> "Mexican", calories |-> 360, protein |-> 13],
  [id |-> 8, name |-> "Mushroom Risotto",
     ingredients |-> <<
       <<"r","i","c","e">>,
       <<"m","u","s","h","r","o","o","m">>,
       <<"o","n","i","o","n">>,
       <<"b","u","t","t","e","r">>,
       <<"p","a","r","m","e","s","a","n">>,
       <<"w","h","i","t","e"," ","w","i","n","e">>,
       <<"v","e","g","e","t","a","b","l","e"," ","b","r","o","t","h">>,
       <<"t","h","y","m","e">>>>,
     dietary |-> <<<<"v","e","g","e","t","a","r","i","a","n">>>>,
     time |-> 45, difficulty |-> "Hard", cuisine |-> "Italian", calories |-> 440, protein |-> 12],
  [id |-> 9, name |-> "Thai Green Curry",
     ingredients |-> <<
       <<"c","h","i","c","k","e","n">>,
       <<"c","o","c","o","n","u","t"," ","m","i","l","k">>,
       <<"g","r","e","e","n"," ","c","u","r","r","y"," ","p","a","s","t","e">>,
       <<"b","a","m","b","o","o"," ","s","h","o","o","t","s">>,
       <<"b","e","l","l"," ","p","e","p","p","e","r">>,
       <<"b","a","s","i","l">>,
       <<"f","i","s","h"," ","s","a","u","c","e">>,
       <<"l","i","m","e">>>>,
     dietary |-> <<<<"n","o","n","-","v","e","g","e","t","a","r","i","a","n">>, <<"g","l","u","t","e","n","-","f","r","e","e">>>>,
     time |-> 35, difficulty |-> "Hard", cuisine |-> "Thai", calories |-> 520, protein |-> 32],
  [id |-> 10, name |-> "Caprese Salad",
     ingredients |-> <<
       <<"t","o","m","a","t","o">>,
       <<"m","o","z","z","a","r","e","l","l","a">>,
       <<"b","a","s","i","l">>,
       <<"o","l","i","v","e"," ","o","i","l">>,
       <<"b","a","l","s","a","m","i","c"," ","v","i","n","e","g","a","r">>,
       <<"s","a","l","t">>,
       <<"b","l","a","c","k"," ","p","e","p","p","e","r">>>>,
     dietary |-> <<<<"v","e","g","e","t","a","r","i","a","n">>, <<"g","l","u","t","e","n","-","f","r","e","e">>>>,
     time |-> 10, difficulty |-> "Easy", cuisine |-> "Italian", calories |-> 280, protein |-> 14]
  >>

\* recipes handed directly to check_constraints / calculate_match: repeated
\* and mixed-case ingredients, mixed-case dietary tags, no ingredients
ProbeRecipes ==
  { [id |-> 101, name |-> "Lime Cooler",
     ingredients |-> << <<"M","i","n","t">>, <<"L","i","m","e">>,
                        <<"l","i","m","e"," ","j","u","i","c","e">>,
                        <<"m","i","n","t">>, <<"L","I","M","E">> >>,
     dietary |-> << <<"V","e","g","a","n">> >>,
     time |-> 5, difficulty |-> "Easy", cuisine |-> "Drinks", calories |-> 40, protein |-> 0],
    [id |-> 102, name |-> "Bread and Oil",
     ingredients |-> << <<"b","r","e","a","d">>, <<"o","i","l">>,
                        <<"O","l","i","v","e"," ","O","i","l">> >>,
     dietary |-> << <<"v","e","g","a","n">>, <<"k","e","t","o">> >>,
     time |-> 20, difficulty |-> "Medium", cuisine |-> "Snacks", calories |-> 210, protein |-> 5],
    [id |-> 103, name |-> "Plain Water",
     ingredients |-> << >>,
     dietary |-> << >>,
     time |-> 1, difficulty |-> "Easy", cuisine |-> "Drinks", calories |-> 0, protein |-> 0] }

\* a recipe of n ingredients: n - k times "oil", then k times "salt"
LargeRecipe(n, k) ==
  [id |-> 200, name |-> "Bulk Sauce",
   ingredients |-> [i \in 1..n |-> IF i <= n - k THEN <<"o","i","l">>
                                   ELSE <<"s","a","l","t">>],
   dietary |-> << <<"v","e","g","a","n">> >>,
   time |-> 60, difficulty |-> "Hard", cuisine |-> "Catering", calories |-> 900, protein |-> 20]

LargeRecipes == {LargeRecipe(MaxLargeLen - 1, k) : k \in 0..1}

(* ------------------------------ inputs --------------------------------- *)
SeqsUpTo(S, n) == UNION {[1..k -> S] : k \in 0..n}

\* user ingredient strings: contained in a recipe token once lower-cased and
\* stripped, containing a recipe token, and blank (strips to the empty string)
IngredientPool ==
  { <<"O","i","l"," ">>, <<"L","i","m","e"," ","J","u","i","c","e">>, <<" ">> }

DietaryPool == { <<"v","e","g","a","n">>, <<" ","K","e","t","o">> }

MaxTimePool == {None, Some(0), Some(20), Some(-5)}

DifficultyPool == {None, Some("Easy")}

MinMatchPool == {0, 12, 100, 101}

\* default of set_constraints' min_match
DefaultMinMatch == 50

\* default of recommend's top_n
DefaultTopN == 5

TopNPool == {0, 2, DefaultTopN, MaxTopN}

\* the argument tuples of set_constraints that are tried: every ingredient
\* list, every dietary list, every threshold, and every time limit with every
\* difficulty
Args ==
  [ingredients : SeqsUpTo(IngredientPool, MaxIngredients), dietary : {<<>>},
   max_time : {None}, difficulty : {None}, min_match : {0, DefaultMinMatch}]
  \cup
  [ingredients : {<<>>}, dietary : SeqsUpTo(DietaryPool, MaxDietary),
   max_time : {None}, difficulty : {None}, min_match : {0, 100, 101}]
  \cup
  [ingredients : {<< <<"O","i","l"," ">> >>}, dietary : {<<>>},
   max_time : {None}, difficulty : {None}, min_match : MinMatchPool]
  \cup
  [ingredients : {<<>>, << <<"O","i","l"," ">> >>},
   dietary : {<<>>, << <<"v","e","g","a","n">> >>},
   max_time : MaxTimePool, difficulty : DifficultyPool, min_match : {DefaultMinMatch}]

(* --------------------------- RecipeRecommender ------------------------- *)
\* self.constraints = {} after __init__
EmptyDict == [ingredients |-> <<>>, dietary |-> <<>>, max_time |-> None,
              difficulty |-> None, min_match |-> 0, keys |-> FALSE]

\* set_constraints that updates the earlier dict, keeping its max_time when
\* none is passed
set_constraints_update(self, ingredients, dietary, max_time, difficulty, min_match) ==
  [ingredients |-> [i \in 1..Len(ingredients) |-> Strip(Lower(ingredients[i]))],
   dietary     |-> [i \in 1..Len(dietary) |-> Strip(Lower(dietary[i]))],
   max_time    |-> IF max_time = <<>> /\ self.keys THEN self.max_time ELSE max_time,
   difficulty  |-> difficulty,
   min_match   |-> min_match,
   keys        |-> TRUE]

\* the dict set_constraints builds; self is the instance's earlier dict,
\* which is replaced as a whole
set_constraints(self, ingredients, dietary, max_time, difficulty, min_match) ==
  [ingredients |-> [i \in 1..Len(ingredients) |-> Strip(Lower(ingredients[i]))],
   dietary     |-> [i \in 1..Len(dietary) |-> Strip(Lower(dietary[i]))],
   max_time    |-> max_time,
   difficulty  |-> difficulty,
   min_match   |-> min_match,
   keys        |-> TRUE]

\* Python truthiness of an optional int: None and 0 are false
TruthyInt(opt) == opt # None /\ opt[1] # 0

\* Python truthiness of an optional str: None and "" are false
TruthyStr(opt) == opt # None /\ opt[1] # ""

\* round(x, 1) of x = m / n * 100, in tenths: round half to even (exact for
\* the sizes used here: no m / n * 100 with n < 16 or n > 2000 prime to 2000
\* falls on a tie)
round1(m, n) ==
  LET q == (2000 * m) \div (2 * n)
      r == (2000 * m) % (2 * n)
  IN  IF r > n THEN q + 1
      ELSE IF r < n THEN q
      ELSE IF q % 2 = 0 THEN q ELSE q + 1

\* matching in one direction only: any(u_ing in r_ing for u_ing in user_ings)
IsMatchOneWay(user_ings, r_ing) ==
  \E k \in 1..Len(user_ings) : StrIn(user_ings[k], r_ing)

\* any(u_ing in r_ing or r_ing in u_ing for u_ing in user_ings)
IsMatch(user_ings, r_ing) ==
  \E k \in 1..Len(user_ings) :
    StrIn(user_ings[k], r_ing) \/ StrIn(r_ing, user_ings[k])

\* calculate_match with missing taken against the user's list:
\* missing = [i for i in recipe_ings if i not in user_ings]
calculate_match_missing_exact(cons, recipe) ==
  IF cons.ingredients = <<>>
  THEN <<1000, <<>>, recipe.ingredients>>
  ELSE LET user_ings   == cons.ingredients
           recipe_ings == [i \in 1..Len(recipe.ingredients) |-> Lower(recipe.ingredients[i])]
           Matches(r_ing) == IsMatch(user_ings, r_ing)
           matched     == SelectSeq(recipe_ings, Matches)
           NotMatched(i) == ~ListIn(i, user_ings)
           missing     == SelectSeq(recipe_ings, NotMatched)
       IN  <<round1(Len(matched), Len(recipe_ings)), matched, missing>>

\* calculate_match with the empty-ingredients result swapped:
\* return 100.0, recipe['ingredients'], []
calculate_match_swapped(cons, recipe) ==
  IF cons.ingredients = <<>>
  THEN <<1000, recipe.ingredients, <<>>>>
  ELSE LET user_ings   == cons.ingredients
           recipe_ings == [i \in 1..Len(recipe.ingredients) |-> Lower(recipe.ingredients[i])]
           Matches(r_ing) == IsMatch(user_ings, r_ing)
           matched     == SelectSeq(recipe_ings, Matches)
           NotMatched(i) == ~ListIn(i, matched)
           missing     == SelectSeq(recipe_ings, NotMatched)
       IN  <<round1(Len(matched), Len(recipe_ings)), matched, missing>>

\* calculate_match: <<match_pct, matched, missing>>
calculate_match(cons, recipe) ==
  IF cons.ingredients = <<>>
  THEN <<1000, <<>>, recipe.ingredients>>
  ELSE LET user_ings   == cons.ingredients
           recipe_ings == [i \in 1..Len(recipe.ingredients) |-> Lower(recipe.ingredients[i])]
           Matches(r_ing) == IsMatch(user_ings, r_ing)
           matched     == SelectSeq(recipe_ings, Matches)
           NotMatched(i) == ~ListIn(i, matched)
           missing     == SelectSeq(recipe_ings, NotMatched)
       IN  <<round1(Len(matched), Len(recipe_ings)), matched, missing>>

\* the exception calculate_match raises, "none" when it returns
calculate_match_raises(cons, recipe) ==
  IF ~cons.keys THEN "KeyError"
  ELSE IF cons.ingredients # <<>> /\ recipe.ingredients = <<>> THEN "ZeroDivisionError"
  ELSE "none"

\* the three hard constraints of check_constraints
DietaryOk(cons, recipe) ==
  cons.dietary # <<>> =>
    \E i \in 1..Len(cons.dietary) : ListIn(cons.dietary[i], recipe.dietary)

TimeOk(cons, recipe) ==
  ~(TruthyInt(cons.max_time) /\ recipe.time > cons.max_time[1])

DifficultyOk(cons, recipe) ==
  ~(TruthyStr(cons.difficulty) /\ recipe.difficulty # cons.difficulty[1])

HardOk(cons, recipe) ==
  DietaryOk(cons, recipe) /\ TimeOk(cons, recipe) /\ DifficultyOk(cons, recipe)

\* the threshold test with <= for <
BelowOrAtThreshold(match_pct, min_match) == match_pct <= 10 * min_match

\* match_pct < min_match, match_pct in tenths
BelowThreshold(match_pct, min_match) == match_pct < 10 * min_match

\* check_constraints: <<valid, match_pct, matched, missing>>
check_constraints(cons, recipe) ==
  IF ~HardOk(cons, recipe) THEN <<FALSE, 0, <<>>, <<>>>>
  ELSE LET m == calculate_match(cons, recipe)
       IN  IF BelowThreshold(m[1], cons.min_match)
           THEN <<FALSE, m[1], m[2], m[3]>>
           ELSE <<TRUE, m[1], m[2], m[3]>>

check_constraints_raises(cons, recipe) ==
  IF ~cons.keys THEN "KeyError"
  ELSE IF ~HardOk(cons, recipe) THEN "none"
  ELSE calculate_match_raises(cons, recipe)

\* the sort key without the minus sign: (match_pct, len(missing), time)
KeyLessAscending(a, b) ==
  \/ a.match_pct < b.match_pct
  \/ a.match_pct = b.match_pct /\ Len(a.missing) < Len(b.missing)
  \/ a.match_pct = b.match_pct /\ Len(a.missing) = Len(b.missing)
       /\ a.recipe.time < b.recipe.time

\* the sort key with time before the missing count:
\* (-match_pct, time, len(missing))
KeyLessTimeFirst(a, b) ==
  \/ a.match_pct > b.match_pct
  \/ a.match_pct = b.match_pct /\ a.recipe.time < b.recipe.time
  \/ a.match_pct = b.match_pct /\ a.recipe.time = b.recipe.time
       /\ Len(a.missing) < Len(b.missing)

\* the sort key of recommend, compared as Python compares tuples:
\* (-match_pct, len(missing), time)
KeyLess(a, b) ==
  \/ a.match_pct > b.match_pct
  \/ a.match_pct = b.match_pct /\ Len(a.missing) < Len(b.missing)
  \/ a.match_pct = b.match_pct /\ Len(a.missing) = Len(b.missing)
       /\ a.recipe.time < b.recipe.time

\* list.sort(key=...) is stable: an entry goes after every entry already
\* placed whose key is not greater
RECURSIVE SortByKey(_)
SortByKey(s) ==
  IF s = <<>> THEN <<>>
  ELSE LET c    == s[Len(s)]
           done == SortByKey(SubSeq(s, 1, Len(s) - 1))
           pos  == Cardinality({i \in 1..Len(done) : ~KeyLess(c, done[i])})
       IN  SubSeq(done, 1, pos) \o <<c>> \o SubSeq(done, pos + 1, Len(done))

\* the loop of recommend: one candidate per valid recipe, in catalog order
RECURSIVE Candidates(_, _)
Candidates(cons, rs) ==
  IF rs = <<>> THEN <<>>
  ELSE LET recipe == rs[Len(rs)]
           c == check_constraints(cons, recipe)
       IN  Candidates(cons, SubSeq(rs, 1, Len(rs) - 1)) \o
             (IF c[1] THEN << [recipe |-> recipe, match_pct |-> c[2],
                               matched |-> c[3], missing |-> c[4]] >>
              ELSE <<>>)

\* candidates[:top_n + 1]
SliceOneMore(s, top_n) == SubSeq(s, 1, IF top_n + 1 < Len(s) THEN top_n + 1 ELSE Len(s))

\* candidates[:top_n] for top_n >= 0
Slice(s, top_n) == SubSeq(s, 1, IF top_n < Len(s) THEN top_n ELSE Len(s))

\* recommend: the sorted candidate list and the slice returned
recommend(cons, rs, top_n) ==
  LET sorted == SortByKey(Candidates(cons, rs))
  IN  [candidates |-> sorted, value |-> Slice(sorted, top_n)]

recommend_raises(cons, rs) ==
  IF rs # <<>> /\ ~cons.keys THEN "KeyError"
  ELSE IF \E i \in 1..Len(rs) : check_constraints_raises(cons, rs[i]) # "none"
       THEN "ZeroDivisionError"
  ELSE "none"

(* ------------------------------- state --------------------------------- *)
VARIABLES
  recipes,      \* self.recipes
  constraints,  \* self.constraints
  args,         \* the arguments of the latest set_constraints call, <<>> if none
  replaced,     \* the latest set_constraints replaced an earlier record
  call,         \* the latest call: [op, top_n, recipe]
  candidates,   \* recommend's local list when it returned
  ret,          \* what the latest call returned
  raised        \* the exception the latest call raised, "none" if it returned

vars == <<recipes, constraints, args, replaced, call, candidates, ret, raised>>

NoRecipe == [id |-> 0]

Init ==
  /\ recipes = RECIPES
  /\ constraints = EmptyDict
  /\ args = <<>>
  /\ replaced = FALSE
  /\ call = [op |-> "__init__", top_n |-> 0, recipe |-> NoRecipe]
  /\ candidates = <<>>
  /\ ret = <<>>
  /\ raised = "none"

SetConstraints(a) ==
  /\ constraints' = set_constraints(constraints, a.ingredients, a.dietary,
                                    a.max_time, a.difficulty, a.min_match)
  /\ args' = <<a>>
  /\ replaced' = constraints.keys
  /\ call' = [op |-> "set_constraints", top_n |-> 0, recipe |-> NoRecipe]
  /\ candidates' = <<>>
  /\ ret' = <<>>
  /\ raised' = "none"
  /\ UNCHANGED recipes

Recommend(top_n) ==
  /\ call' = [op |-> "recommend", top_n |-> top_n, recipe |-> NoRecipe]
  /\ raised' = recommend_raises(constraints, recipes)
  /\ IF raised' = "none"
     THEN LET r == recommend(constraints, recipes, top_n)
          IN  candidates' = r.candidates /\ ret' = r.value
     ELSE candidates' = <<>> /\ ret' = <<>>
  /\ UNCHANGED <<recipes, constraints, args, replaced>>

CheckConstraints(recipe) ==
  /\ call' = [op |-> "check_constraints", top_n |-> 0, recipe |-> recipe]
  /\ raised' = check_constraints_raises(constraints, recipe)
  /\ ret' = IF raised' = "none" THEN check_constraints(constraints, recipe) ELSE <<>>
  /\ candidates' = <<>>
  /\ UNCHANGED <<recipes, constraints, args, replaced>>

CalculateMatch(recipe) ==
  /\ call' = [op |-> "calculate_match", top_n |-> 0, recipe |-> recipe]
  /\ raised' = calculate_match_raises(constraints, recipe)
  /\ ret' = IF raised' = "none" THEN calculate_match(constraints, recipe) ELSE <<>>
  /\ candidates' = <<>>
  /\ UNCHANGED <<recipes, constraints, args, replaced>>

(* the recommender as main() drives it: set_constraints and recommend *)
DoSetConstraints == \E a \in Args : SetConstraints(a)

DoRecommend == \E n \in TopNPool : Recommend(n)

Next == DoSetConstraints \/ DoRecommend

Spec == Init /\ [][Next]_vars

(* the methods called directly with a recipe of the caller's *)
ArgsDirect ==
  {a \in Args : a.max_time = None /\ a.difficulty = None /\ a.min_match = 0}

DirectSetConstraints == \E a \in ArgsDirect : SetConstraints(a)

DirectRecommend == Recommend(DefaultTopN)

DirectCheckConstraints == \E r \in ProbeRecipes : CheckConstraints(r)

DirectCalculateMatch == \E r \in ProbeRecipes \cup LargeRecipes : CalculateMatch(r)

NextDirect ==
  DirectSetConstraints \/ DirectRecommend \/ DirectCheckConstraints \/ DirectCalculateMatch

SpecDirect == Init /\ [][NextDirect]_vars

(* ------------------------------ properties ----------------------------- *)
Returned(op) == call.op = op /\ raised = "none"

Range(s) == {s[i] : i \in 1..Len(s)}

Ids(s) == [i \in 1..Len(s) |-> s[i].recipe.id]

CatalogIndex(r) == CHOOSE k \in 1..Len(recipes) : recipes[k] = r

SameKeys(A, B) ==
  /\ A.match_pct = B.match_pct
  /\ Len(A.missing) = Len(B.missing)
  /\ A.recipe.time = B.recipe.time

\* C1: the sequence recommend returns is ordered by match_pct descending,
\* then missing count ascending, then time ascending, and entries equal on
\* all three keys keep their catalog order.
C1_Sorted ==
  Returned("recommend") =>
    \A i, j \in 1..Len(ret) : i < j =>
      LET A == ret[i]
          B == ret[j]
      IN  /\ A.match_pct >= B.match_pct
          /\ A.match_pct = B.match_pct => Len(A.missing) <= Len(B.missing)
          /\ (A.match_pct = B.match_pct /\ Len(A.missing) = Len(B.missing))
               => A.recipe.time <= B.recipe.time
          /\ SameKeys(A, B) => CatalogIndex(A.recipe) < CatalogIndex(B.recipe)

\* a returned list with two entries equal on all three keys and two entries
\* that only the time key separates
C1_Witness ==
  /\ Returned("recommend")
  /\ \E i, j \in 1..Len(ret) : i < j /\ SameKeys(ret[i], ret[j])
  /\ \E i, j \in 1..Len(ret) :
       /\ i < j
       /\ ret[i].match_pct = ret[j].match_pct
       /\ Len(ret[i].missing) = Len(ret[j].missing)
       /\ ret[i].recipe.time < ret[j].recipe.time

\* the query of C2: ingredients = [], dietary = ["vegan"], min_match = 50
VeganQuery ==
  [ingredients |-> <<>>, dietary |-> << <<"v","e","g","a","n">> >>,
   max_time |-> None, difficulty |-> None, min_match |-> DefaultMinMatch]

VeganAnswered ==
  args = <<VeganQuery>> /\ Returned("recommend") /\ call.top_n = DefaultTopN

\* C2 as stated: the vegan query returns ids 7, 2, 5 in that order, each at
\* 100.0.
C2_Original ==
  VeganAnswered =>
    /\ Ids(ret) = <<7, 2, 5>>
    /\ \A i \in 1..Len(ret) : ret[i].match_pct = 1000

\* C2 amended: the vegan query returns ids 2, 7, 5 in that order, each at
\* 100.0 (id 2 has 8 missing ingredients, ids 7 and 5 have 9, and the missing
\* count is compared before the time).
C2_Amended ==
  VeganAnswered =>
    /\ Ids(ret) = <<2, 7, 5>>
    /\ \A i \in 1..Len(ret) : ret[i].match_pct = 1000
    /\ \A i \in 1..Len(ret) : ret[i].missing = ret[i].recipe.ingredients

C2_Witness == VeganAnswered /\ Len(ret) = 3

\* matched and missing split the lower-cased ingredient list between them,
\* each in the list's order
PartitionInOrder(ingredients, matched, missing) ==
  LET L == [i \in 1..Len(ingredients) |-> Lower(ingredients[i])]
      M == [i \in 1..Len(missing) |-> Lower(missing[i])]
      inMatched == Range(matched)
      inMissing == Range(M)
      InMatched(x) == x \in inMatched
      InMissing(x) == x \in inMissing
  IN  /\ Len(matched) + Len(missing) = Len(ingredients)
      /\ inMatched \cap inMissing = {}
      /\ matched = SelectSeq(L, InMatched)
      /\ M = SelectSeq(L, InMissing)

\* C3: for every recipe calculate_match scores and every candidate recommend
\* returns, count(matched) + count(missing) is the recipe's ingredient count
\* and both lists keep the recipe's order.
C3_Partition ==
  /\ Returned("calculate_match") =>
       PartitionInOrder(call.recipe.ingredients, ret[2], ret[3])
  /\ (Returned("check_constraints") /\ ret[1]) =>
       PartitionInOrder(call.recipe.ingredients, ret[3], ret[4])
  /\ Returned("recommend") =>
       \A i \in 1..Len(ret) :
         PartitionInOrder(ret[i].recipe.ingredients, ret[i].matched, ret[i].missing)

\* a recipe with repeated ingredients scored against a non-empty list, with a
\* repeated ingredient on each side
C3_Witness ==
  /\ Returned("calculate_match")
  /\ call.recipe.id = 101
  /\ constraints.ingredients # <<>>
  /\ \E i, j \in 1..Len(ret[2]) : i < j /\ ret[2][i] = ret[2][j]
  /\ \E i, j \in 1..Len(ret[3]) : i < j /\ ret[3][i] = ret[3][j]

\* the number of catalog recipes that pass every filter
Qualifying ==
  Cardinality({k \in 1..Len(recipes) : check_constraints(constraints, recipes[k])[1]})

\* C4: recommend returns at most top_n entries: all Q qualifying ones when
\* Q < top_n, the first top_n of the ranked list when Q >= top_n, and the
\* empty sequence, without an error, when Q = 0 or top_n = 0.
C4_TopN ==
  (call.op = "recommend" /\ constraints.keys) =>
    /\ raised = "none"
    /\ Len(ret) <= call.top_n
    /\ Len(candidates) = Qualifying
    /\ Qualifying < call.top_n => (Len(ret) = Qualifying /\ ret = candidates)
    /\ Qualifying >= call.top_n => ret = SubSeq(candidates, 1, call.top_n)
    /\ (Qualifying = 0 \/ call.top_n = 0) => ret = <<>>

\* a call that cut the ranked list short
C4_Witness ==
  /\ Returned("recommend")
  /\ 0 < call.top_n
  /\ call.top_n < Len(candidates)
  /\ Len(ret) = call.top_n

NoHardConstraints ==
  constraints.dietary = <<>> /\ constraints.max_time = None /\ constraints.difficulty = None

\* C5: with no user ingredients every recipe that passes the hard filters is
\* a candidate at 100.0 with matched empty and missing = all its ingredients,
\* for every min_match in [0,100]; with no hard constraints that is the whole
\* catalog, all returned when top_n >= the catalog size.
C5_NoIngredients ==
  (Returned("recommend") /\ constraints.ingredients = <<>>
     /\ constraints.min_match \in 0..100) =>
    /\ \A k \in 1..Len(recipes) :
         HardOk(constraints, recipes[k]) =>
           \E i \in 1..Len(candidates) :
             /\ candidates[i].recipe = recipes[k]
             /\ candidates[i].match_pct = 1000
             /\ candidates[i].matched = <<>>
             /\ candidates[i].missing = recipes[k].ingredients
    /\ NoHardConstraints =>
         /\ Len(candidates) = Len(recipes)
         /\ call.top_n >= Len(recipes) =>
              /\ Len(ret) = Len(recipes)
              /\ \A i \in 1..Len(ret) : ret[i].match_pct = 1000

\* the whole catalog returned for an empty query at the highest legal threshold
C5_Witness ==
  /\ Returned("recommend")
  /\ constraints.ingredients = <<>>
  /\ NoHardConstraints
  /\ constraints.min_match = 100
  /\ call.top_n >= Len(recipes)
  /\ Len(ret) = Len(recipes)

\* C6: no returned candidate is below min_match, every recipe that passes the
\* hard filters with match_pct >= min_match is a candidate, and min_match = 101
\* gives the empty sequence.
C6_Threshold ==
  Returned("recommend") =>
    /\ \A i \in 1..Len(ret) : ret[i].match_pct >= 10 * constraints.min_match
    /\ \A k \in 1..Len(recipes) :
         (/\ HardOk(constraints, recipes[k])
          /\ calculate_match(constraints, recipes[k])[1] >= 10 * constraints.min_match)
           => \E i \in 1..Len(candidates) : candidates[i].recipe = recipes[k]
    /\ constraints.min_match = 101 => ret = <<>>

\* a query whose threshold keeps some scored recipes and drops others, one of
\* the kept ones exactly at the threshold or above it
C6_Witness ==
  /\ Returned("recommend")
  /\ constraints.ingredients # <<>>
  /\ candidates # <<>>
  /\ \E k \in 1..Len(recipes) :
       /\ HardOk(constraints, recipes[k])
       /\ calculate_match(constraints, recipes[k])[1] < 10 * constraints.min_match

\* two tags are equal ignoring letter case
TagEq(d, t) == Lower(d) = Lower(t)

\* C7: with a non-empty dietary list a recipe is eliminated exactly when no
\* constraint tag equals a tag of the recipe ignoring letter case on both
\* sides; with an empty list none is eliminated.  (Stated where only the
\* dietary filter can eliminate: no time limit, no difficulty, min_match 0.)
C7_Claim ==
  (Returned("check_constraints") /\ constraints.max_time = None
     /\ constraints.difficulty = None /\ constraints.min_match = 0) =>
    (ret[1] = FALSE <=>
       /\ constraints.dietary # <<>>
       /\ ~\E i \in 1..Len(constraints.dietary), j \in 1..Len(call.recipe.dietary) :
             TagEq(constraints.dietary[i], call.recipe.dietary[j]))

\* C8: when max_time is set to any integer no returned candidate takes longer
\* than max_time; when it is absent no recipe is eliminated for its time.
C8_Claim ==
  Returned("recommend") =>
    /\ constraints.max_time # None =>
         \A i \in 1..Len(ret) : ret[i].recipe.time <= constraints.max_time[1]
    /\ constraints.max_time = None =>
         \A k \in 1..Len(recipes) :
           (/\ DietaryOk(constraints, recipes[k])
            /\ DifficultyOk(constraints, recipes[k])
            /\ calculate_match(constraints, recipes[k])[1] >= 10 * constraints.min_match)
             => \E i \in 1..Len(candidates) : candidates[i].recipe = recipes[k]

\* what C9 says of matched, missing and match_pct apart from the 100.0 case:
\* an ingredient is in matched exactly when some user string contains it or
\* is contained in it, otherwise in missing; match_pct is the tenth nearest
\* to 100 * count(matched) / count(ingredients) and lies in [0, 100]
Scoring ==
  LET L == [i \in 1..Len(call.recipe.ingredients) |-> Lower(call.recipe.ingredients[i])]
      u == constraints.ingredients
      hit(x) == \E k \in 1..Len(u) : StrIn(u[k], x) \/ StrIn(x, u[k])
      n == Len(L)
      m == Len(ret[2])
      d == ret[1] * n - 1000 * m
      inMatched == Range(ret[2])
      inMissing == Range(ret[3])
  IN  /\ \A i \in 1..n : (L[i] \in inMatched) <=> hit(L[i])
      /\ \A i \in 1..n : (L[i] \in inMissing) <=> ~hit(L[i])
      /\ Len(ret[2]) + Len(ret[3]) = n
      /\ 2 * d <= n /\ -n <= 2 * d
      /\ 0 <= ret[1] /\ ret[1] <= 1000

Scored == Returned("calculate_match") /\ constraints.ingredients # <<>>

\* C9 as stated: the scoring rule, and match_pct = 100.0 exactly when missing
\* is empty.
C9_Original ==
  Scored => (Scoring /\ (ret[1] = 1000 <=> ret[3] = <<>>))

\* C9 amended: the scoring rule; match_pct = 100.0 whenever missing is empty,
\* and for a recipe of fewer than 2000 ingredients only then.
C9_Amended ==
  Scored =>
    /\ Scoring
    /\ ret[3] = <<>> => ret[1] = 1000
    /\ (ret[1] = 1000 /\ Len(call.recipe.ingredients) < 2000) => ret[3] = <<>>

\* a small recipe scored with some ingredients matched and some missing, one
\* matched because the user's string contains it
C9_Witness ==
  /\ Scored
  /\ Len(call.recipe.ingredients) < 2000
  /\ ret[2] # <<>> /\ ret[3] # <<>>
  /\ \E i \in 1..Len(ret[2]) : \E k \in 1..Len(constraints.ingredients) :
       /\ StrIn(ret[2][i], constraints.ingredients[k])
       /\ ret[2][i] # constraints.ingredients[k]

\* the constraints a fresh recommender holds after the latest set_constraints
FreshConstraints ==
  LET a == args[1]
  IN  set_constraints(EmptyDict, a.ingredients, a.dietary, a.max_time,
                      a.difficulty, a.min_match)

\* C10: recommend returns what a fresh recommender given only the latest
\* set_constraints arguments returns; recommend changes neither the catalog
\* nor the constraints; two consecutive recommend calls return equal results.
C10_Pure ==
  /\ [](Returned("recommend") =>
          /\ recipes = RECIPES
          /\ constraints = [FreshConstraints EXCEPT !.keys = TRUE]
          /\ constraints.max_time = args[1].max_time
          /\ constraints.difficulty = args[1].difficulty
          /\ constraints.min_match = args[1].min_match
          /\ ret = recommend(FreshConstraints, RECIPES, call.top_n).value)
  /\ [][/\ call'.op = "recommend" =>
             (recipes' = recipes /\ constraints' = constraints)
        /\ (Returned("recommend") /\ call'.op = "recommend"
              /\ call'.top_n = call.top_n) => ret' = ret]_vars

\* recommend answered after set_constraints replaced an earlier record
C10_Witness == Returned("recommend") /\ replaced /\ ret # <<>>
====
